---- MODULE Spec2Model ----
(***************************************************************************)
(* A model of vndle's VNDB ingestion scripts (src/scripts/python):         *)
(*   vndb_client.py      the paginated remote client,                      *)
(*   vndb_cli.py         fetch_characters (retry, pacing) and _cli,        *)
(*   vndb_data_utils.py  labelling, normalisation and de-duplication.      *)
(*                                                                         *)
(* Python values are modelled as follows.                                  *)
(*   dict            a function whose DOMAIN is the set of its keys        *)
(*   list            a sequence                                            *)
(*   an id ("v10")   the sequence of its characters <<"v","1","0">>, so    *)
(*                   that id[1:] and int() are computed, not assumed       *)
(*   a field whose type varies (birthday, sex, image, the label)           *)
(*                   a tagged value [t |-> "list"|"str"|"dict"|"null", v]  *)
(*   a call that may raise                                                 *)
(*                   a record [exc |-> "none" or the exception, val |-> _] *)
(***************************************************************************)
EXTENDS Integers, Sequences, FiniteSets, TLC

(***************************************************************************)
(* Python built-ins used by the scripts                                    *)
(***************************************************************************)
Has(d, k) == k \in DOMAIN d

Get(d, k, default) == IF k \in DOMAIN d THEN d[k] ELSE default

Put(d, k, v) == [x \in (DOMAIN d) \cup {k} |-> IF x = k THEN v ELSE d[x]]

Del(d, k) == [x \in (DOMAIN d) \ {k} |-> d[x]]

Null == [t |-> "null", v |-> <<>>]

IsList(x) == x.t = "list"

Range(s) == {s[i] : i \in 1..Len(s)}

Map(F(_), s) == [i \in 1..Len(s) |-> F(s[i])]

RECURSIVE Concat(_)
Concat(ss) == IF ss = <<>> THEN <<>> ELSE Head(ss) \o Concat(Tail(ss))

DigitChars == <<"0", "1", "2", "3", "4", "5", "6", "7", "8", "9">>

IsDigit(c) == \E i \in 1..Len(DigitChars) : DigitChars[i] = c

DigitVal(c) == (CHOOSE i \in 1..Len(DigitChars) : DigitChars[i] = c) - 1

\* int(s) for a string of decimal digits; the scripts' ids carry nothing else
\* after their type letter.  int("") raises ValueError.
RECURSIVE IntOfDigits(_, _)
IntOfDigits(s, acc) ==
    IF s = <<>> THEN acc
    ELSE IntOfDigits(Tail(s), acc * Len(DigitChars) + DigitVal(Head(s)))

CanInt(s) == s # <<>> /\ \A i \in 1..Len(s) : IsDigit(s[i])

PyInt(s) == IntOfDigits(s, 0)

\* str(n) for n >= 0
RECURSIVE StrOfNat(_)
StrOfNat(n) ==
    IF n < Len(DigitChars) THEN <<DigitChars[n + 1]>>
    ELSE StrOfNat(n \div Len(DigitChars)) \o <<DigitChars[(n % Len(DigitChars)) + 1]>>

\* f"{n:02d}" for n >= 0
Fmt02d(n) == IF Len(StrOfNat(n)) < 2 THEN <<"0">> \o StrOfNat(n) ELSE StrOfNat(n)

\* an id made of a type letter and a number: "v" and 10 give "v10"
MkId(letter, n) == <<letter>> \o StrOfNat(n)

(***************************************************************************)
(* vndb_data_utils.py                                                      *)
(***************************************************************************)
NSFW_GROUP_SUBSTRINGS == <<"(Sexual)">>

\* `bad in group_name` for the group names of the modelled catalog: the
\* only names containing "(Sexual)" are the ones listed here.
GroupContains(group, bad) ==
    bad = "(Sexual)" /\ group \in {"Engages in (Sexual)", "Subject of (Sexual)"}

is_sfw(trait) ==
    ~ \E i \in 1..Len(NSFW_GROUP_SUBSTRINGS) :
        GroupContains(Get(trait, "group_name", ""), NSFW_GROUP_SUBSTRINGS[i])

\* Counter: a dict trait id -> count; a missing key reads as 0
CounterGet(freq, k) == IF k \in DOMAIN freq THEN freq[k] ELSE 0

RECURSIVE CountTraits(_, _)
CountTraits(traits, freq) ==
    IF traits = <<>> THEN freq
    ELSE LET tr == Head(traits)
         IN  CountTraits(Tail(traits),
                         IF is_sfw(tr)
                         THEN Put(freq, tr["id"], CounterGet(freq, tr["id"]) + 1)
                         ELSE freq)

RECURSIVE CollectInto(_, _)
CollectInto(characters, freq) ==
    IF characters = <<>> THEN freq
    ELSE CollectInto(Tail(characters),
                     CountTraits(Get(Head(characters), "traits", <<>>), freq))

collect_frequencies(characters) == CollectInto(characters, <<>>)

\* GROUP_WEIGHTS and _DEFAULT_WEIGHT, as the row of ScoreRank they select
GroupWeightRow(group) ==
    CASE group = "Personality" -> 1
      [] group = "Role" -> 2
      [] group \in {"Engages in", "Subject of"} -> 3
      [] OTHER -> 4

\* The double (1.0 / f) * weight for weight 1.4, 1.2, 1.0, 0.8 (rows) and
\* f = 1..6 (columns), given by its rank among these 24 IEEE-754 products:
\* a larger rank is a larger double, equal ranks are equal doubles.  The
\* products are not the exact rationals: (1.0/3)*1.2 = 0.39999999999999997
\* is below (1.0/2)*0.8 = 0.4, and (1.0/5)*1.0 equals (1.0/4)*0.8.
ScoreRank ==
    << <<23, 19, 16, 13, 10, 6>>,
       <<22, 18, 14, 11, 7, 4>>,
       <<21, 17, 12, 8, 5, 3>>,
       <<20, 15, 9, 5, 2, 1>> >>

\* rank 0 stands for the score 0.0 of a trait the counter does not hold
score_trait(trait, freq) ==
    LET f == CounterGet(freq, trait["id"])
    IN  IF f = 0 THEN 0
        ELSE ScoreRank[GroupWeightRow(Get(trait, "group_name", ""))][f]

\* best_score starts at -1.0, below every score; best_name at None
RECURSIVE BestTraitFrom(_, _, _, _)
BestTraitFrom(traits, freq, best_score, best_name) ==
    IF traits = <<>> THEN best_name
    ELSE LET sc == score_trait(Head(traits), freq)
         IN  IF sc > best_score
             THEN BestTraitFrom(Tail(traits), freq, sc,
                                [t |-> "str", v |-> Head(traits)["name"]])
             ELSE BestTraitFrom(Tail(traits), freq, best_score, best_name)

\* line 66 with `>=`: the last trait of maximal score wins
RECURSIVE BestTraitLastFrom(_, _, _, _)
BestTraitLastFrom(traits, freq, best_score, best_name) ==
    IF traits = <<>> THEN best_name
    ELSE LET sc == score_trait(Head(traits), freq)
         IN  IF sc >= best_score
             THEN BestTraitLastFrom(Tail(traits), freq, sc,
                                    [t |-> "str", v |-> Head(traits)["name"]])
             ELSE BestTraitLastFrom(Tail(traits), freq, best_score, best_name)

_best_trait_last(traits, freq) == BestTraitLastFrom(traits, freq, -1, Null)

_best_trait(traits, freq) == BestTraitFrom(traits, freq, -1, Null)

SfwTraits(traits) == SelectSeq(traits, is_sfw)

select_signature_trait(character, freq, min_overlap) ==
    LET sfw == SfwTraits(Get(character, "traits", <<>>))
        IsOverlap(tr) == CounterGet(freq, tr["id"]) >= min_overlap
        IsLeftover(tr) == ~ IsOverlap(tr)
        overlap_ok == SelectSeq(sfw, IsOverlap)
        leftovers == SelectSeq(sfw, IsLeftover)
        chosen == IF overlap_ok # <<>> THEN _best_trait(overlap_ok, freq) ELSE Null
    IN  IF chosen.t # "null" THEN chosen
        ELSE LET fb == _best_trait(leftovers, freq)
             \* `x or None`: an empty name is falsy too
             IN  IF fb.t = "null" \/ fb.v = "" THEN Null ELSE fb

_label_record(ch, freq) ==
    LET sig == select_signature_trait(ch, freq, 2)
        sfw == SfwTraits(Get(ch, "traits", <<>>))
        sig2 == IF sig.t # "null" THEN sig
                ELSE IF sfw = <<>> THEN Null
                ELSE [t |-> "str", v |-> sfw[1]["name"]]
    IN  Put(ch, "non_unique_trait", sig2)

create_records(characters) ==
    LET freq == collect_frequencies(characters)
    IN  [i \in 1..Len(characters) |-> _label_record(characters[i], freq)]

RECURSIVE DedupBy(_, _, _, _)
DedupBy(Key(_), records, seen, unique) ==
    IF records = <<>> THEN unique
    ELSE LET identifier == Key(Head(records))
         IN  IF identifier \notin seen
             THEN DedupBy(Key, Tail(records), seen \cup {identifier},
                          Append(unique, Head(records)))
             ELSE DedupBy(Key, Tail(records), seen, unique)

CharKey(record) == <<record["id"], record["name"]>>

VnKey(vn) == vn["id"]

\* the dict-comprehension idiom: the last record of a key replaces the first
RECURSIVE KeepLastBy(_, _, _)
KeepLastBy(Key(_), records, unique) ==
    IF records = <<>> THEN unique
    ELSE LET r == Head(records)
             Other(x) == Key(x) # Key(r)
         IN  IF \E i \in 1..Len(unique) : Key(unique[i]) = Key(r)
             THEN KeepLastBy(Key, Tail(records),
                             [i \in 1..Len(unique) |->
                                 IF Key(unique[i]) = Key(r) THEN r ELSE unique[i]])
             ELSE KeepLastBy(Key, Tail(records), Append(unique, r))

remove_duplicates_keep_last(records) == KeepLastBy(CharKey, records, <<>>)

remove_duplicates(records) == DedupBy(CharKey, records, {}, <<>>)

remove_duplicates_in_vns(vns) == DedupBy(VnKey, vns, {}, <<>>)

add_origin_to_character(character, origin) == Put(character, "origin", origin)

\* The code points of the trait names of the modelled catalog: Python orders
\* str by code point, so every upper-case letter sorts before a lower-case one.
NameCodes(name) ==
    CASE name = "Blond" -> <<66, 108, 111, 110, 100>>
      [] name = "Brave" -> <<66, 114, 97, 118, 101>>
      [] name = "Kind" -> <<75, 105, 110, 100>>
      [] name = "Short" -> <<83, 104, 111, 114, 116>>
      [] name = "Student" -> <<83, 116, 117, 100, 101, 110, 116>>
      [] name = "Teen" -> <<84, 101, 101, 110>>
      [] name = "Lewd" -> <<76, 101, 119, 100>>
      [] OTHER -> <<>>

RECURSIVE CodesLess(_, _)
CodesLess(a, b) ==
    IF b = <<>> THEN FALSE
    ELSE IF a = <<>> THEN TRUE
    ELSE IF Head(a) # Head(b) THEN Head(a) < Head(b)
    ELSE CodesLess(Tail(a), Tail(b))

StrLess(a, b) == CodesLess(NameCodes(a), NameCodes(b))

\* list.sort() and sorted(): stable, ascending by Less on the keys
RECURSIVE InsertSorted(_, _, _)
InsertSorted(Less(_, _), x, sorted) ==
    IF sorted = <<>> THEN <<x>>
    ELSE IF Less(x, Head(sorted)) THEN <<x>> \o sorted
    ELSE <<Head(sorted)>> \o InsertSorted(Less, x, Tail(sorted))

RECURSIVE SortInto(_, _, _)
SortInto(Less(_, _), s, sorted) ==
    IF s = <<>> THEN sorted
    ELSE SortInto(Less, Tail(s), InsertSorted(Less, Head(s), sorted))

StableSort(Less(_, _), s) == SortInto(Less, s, <<>>)

desired_groups == {"Hair", "Personality", "Eyes", "Role", "Body"}

clean_character_traits(char) ==
    LET traits == Get(char, "traits", <<>>)
        InGroup(g) == LET P(tr) == Get(tr, "group_name", "") = g
                      IN  SelectSeq(traits, P)
        NameOf(tr) == tr["name"]
        collected == [g \in desired_groups |-> Map(NameOf, InGroup(g))]
        present == {g \in desired_groups : collected[g] # <<>>}
        keep == (DOMAIN char) \ {"traits"}
    IN  [k \in keep \cup present |->
            IF k \in present
            THEN [t |-> "list", v |-> StableSort(StrLess, collected[k])]
            ELSE char[k]]

\* birthday_to_string: [exc, val], the string as its characters
birthday_to_string(bday) ==
    IF Len(bday) # 2 THEN [exc |-> "ValueError", val |-> <<>>]
    ELSE LET month == bday[1]
             day == bday[2]
         IN  [exc |-> "none",
              val |-> Fmt02d(day) \o <<".">> \o Fmt02d(month) \o <<".">>]

normalize_birthday(char) ==
    IF IsList(Get(char, "birthday", Null))
    THEN LET r == birthday_to_string(char["birthday"].v)
         IN  [exc |-> r.exc,
              val |-> IF r.exc = "none"
                      THEN Put(char, "birthday", [t |-> "str", v |-> r.val])
                      ELSE char]
    ELSE [exc |-> "none", val |-> char]

normalize_image_url(char) ==
    LET img == Get(char, "image", Null)
        cleaned == Del(char, "image")
    IN  IF img.t = "dict" /\ Has(img.v, "url")
        THEN Put(cleaned, "image_url", img.v["url"])
        ELSE cleaned

normalize_sex(char) ==
    LET sex_field == Get(char, "sex", Null)
    IN  IF IsList(sex_field) /\ sex_field.v # <<>>
        THEN Put(char, "sex", [t |-> "str", v |-> sex_field.v[1]])
        ELSE char

\* the loop of lines 241-248 without its break: the last matching entry
LastVnMatch(vns, origin_id) ==
    LET hits == {i \in 1..Len(vns) : Has(vns[i], "id") /\ vns[i]["id"] = origin_id}
    IN  IF hits = {} THEN 0 ELSE CHOOSE i \in hits : \A j \in hits : i >= j

\* the index of the first entry of vns whose id is origin_id, 0 if none
FirstVnMatch(vns, origin_id) ==
    LET hits == {i \in 1..Len(vns) : Has(vns[i], "id") /\ vns[i]["id"] = origin_id}
    IN  IF hits = {} THEN 0 ELSE CHOOSE i \in hits : \A j \in hits : i <= j

normalize_origin_entry(char) ==
    LET origin_id == Get(char, "origin", <<>>)
    IN  IF origin_id = <<>> THEN char
        ELSE LET vns == Get(char, "vns", <<>>)
                 m == FirstVnMatch(vns, origin_id)
                 vn == vns[m]
                 devs == Get(vn, "developers", <<>>)
                 c1 == IF m = 0 THEN char
                       ELSE Put(Put(char, "released", Get(vn, "released", Null)),
                                "role", Get(vn, "role", Null))
                 c2 == IF m # 0 /\ devs # <<>>
                       THEN Put(c1, "developer", Get(devs[1], "name", Null))
                       ELSE c1
             IN  Del(c2, "vns")

(***************************************************************************)
(* vndb_cli.py: pure helpers                                               *)
(***************************************************************************)
MAX_CHAR_BATCH == 25

VN_DB_VERSION == "1.0.0"

RECURSIVE Pow(_, _)
Pow(b, e) == IF e = 0 THEN 1 ELSE b * Pow(b, e - 1)

\* base ** attempt with base = 1.5, as the fraction 3^attempt / 2^attempt
_backoff_delay(attempt) == [num |-> Pow(3, attempt), den |-> Pow(2, attempt)]

\* the key of _sorted_by_id: int(o.get("id", "v0")[1:])
IdSuffix(o) == Tail(Get(o, "id", <<"v", "0">>))

IdKey(o) == PyInt(IdSuffix(o))

\* the suffixes compared as strings, not as numbers
IdKeyLessLex(a, b) == CodesLess(Map(DigitVal, IdSuffix(a)), Map(DigitVal, IdSuffix(b)))

\* a sort that does not keep the order of equal keys
IdKeyLessOrEqual(a, b) == IdKey(a) <= IdKey(b)

IdKeyLess(a, b) == IdKey(a) < IdKey(b)

\* [exc, val]: int() raises ValueError on a suffix that is no number
_sorted_by_id(objs) ==
    IF \E i \in 1..Len(objs) : ~ CanInt(IdSuffix(objs[i]))
    THEN [exc |-> "ValueError", val |-> <<>>]
    ELSE [exc |-> "none", val |-> StableSort(IdKeyLess, objs)]

RECURSIVE UniqueInto(_, _, _)
UniqueInto(seq, seen, out) ==
    IF seq = <<>> THEN out
    ELSE IF Head(seq) \notin seen
         THEN UniqueInto(Tail(seq), seen \cup {Head(seq)}, Append(out, Head(seq)))
         ELSE UniqueInto(Tail(seq), seen, out)

_unique(seq) == UniqueInto(seq, {}, <<>>)

\* for func in pipeline: records = list(map(func, records)); normalize_birthday
\* is the one step that can raise, and it is the second of the five
prepare_records(raw_chars) ==
    LET chars == remove_duplicates(raw_chars)
        records == create_records(chars)
        r1 == Map(clean_character_traits, records)
        r2 == Map(normalize_birthday, r1)
        Val(r) == r.val
        r5(r) == normalize_origin_entry(normalize_sex(normalize_image_url(r)))
    IN  IF \E i \in 1..Len(r2) : r2[i].exc # "none"
        THEN [exc |-> "ValueError", val |-> <<>>]
        ELSE [exc |-> "none", val |-> Map(r5, Map(Val, r2))]

(***************************************************************************)
(* The remote catalog and the files the runs start from                    *)
(***************************************************************************)
Str(s) == [t |-> "str", v |-> s]

List(s) == [t |-> "list", v |-> s]

Dict(d) == [t |-> "dict", v |-> d]

Num(n) == [t |-> "int", v |-> n]

V(n) == MkId("v", n)

C(n) == MkId("c", n)

Trait(id, name, group) == [id |-> id, name |-> name, group_name |-> group]

VnAssoc(vid, role, released, dev) ==
    [id |-> vid, role |-> Str(role), released |-> Str(released),
     developers |-> <<[name |-> Str(dev)]>>]

VnEntry(n, title) == [id |-> V(n), title |-> title]

CharA ==
    [id |-> C(1), name |-> "A", age |-> Num(17), birthday |-> List(<<8, 30>>),
     sex |-> List(<<"f", "f">>), image |-> Dict([url |-> "u1"]),
     traits |-> <<Trait("i1", "Kind", "Personality"), Trait("i3", "Blond", "Hair"),
                  Trait("i2", "Brave", "Personality")>>,
     vns |-> <<VnAssoc(V(1), "main", "2004-01-30", "Dev1")>>]

\* the same id as CharA under another name
CharB(bday) ==
    [id |-> C(1), name |-> "B", age |-> Null, birthday |-> List(bday),
     sex |-> List(<<"m", "m">>), image |-> Dict([url |-> "u2"]),
     traits |-> <<Trait("i6", "Lewd", "Engages in (Sexual)"),
                  Trait("i5", "Student", "Role"), Trait("i1", "Kind", "Personality")>>,
     vns |-> <<VnAssoc(V(2), "primary", "2010-05-01", "Dev2")>>]

\* a character of both v1 and v2
CharC ==
    [id |-> C(2), name |-> "C", age |-> Num(20), birthday |-> List(<<1, 1>>),
     sex |-> Str("f"), image |-> Dict([url |-> "u3"]),
     traits |-> <<Trait("i4", "Short", "Body"), Trait("i5", "Student", "Role")>>,
     vns |-> <<VnAssoc(V(2), "main", "2010-05-01", "Dev2"),
               VnAssoc(V(1), "primary", "2004-01-30", "Dev1")>>]

CharD ==
    [id |-> C(10), name |-> "D", age |-> Null, birthday |-> Null, sex |-> Null,
     image |-> Null, traits |-> <<>>,
     vns |-> <<VnAssoc(V(1), "main", "2004-01-30", "Dev1")>>]

\* The catalog of the runs of _cli: v1 has two pages of characters, v10 has
\* none; `bday` is the birthday the service reports for CharB.
CliRemote(bday) ==
    [vns |-> <<VnEntry(1, "One"), VnEntry(2, "Two"), VnEntry(10, "Ten")>>,
     chars |-> [vid \in {V(1), V(2), V(10)} |->
                  IF vid = V(1) THEN << <<CharD, CharC>>, <<CharA>> >>
                  ELSE IF vid = V(2) THEN << <<CharC, CharB(bday)>> >>
                  ELSE << <<>> >>],
     top |-> << <<VnEntry(2, "Two"), VnEntry(10, "Ten")>>, <<VnEntry(1, "One")>> >>]

GoodBirthday == <<12, 24>>

\* a birthday that is no [month, day] pair
BadBirthday == <<7>>

SimpleChar(n, name) == [id |-> C(n), name |-> name]

\* The catalog of the direct calls of fetch_characters: VNs v1..vn, v1 with
\* two pages, the VNs numbered in `empties` with no character at all.
FetchRemote(n, empties) ==
    [vns |-> [i \in 1..n |-> VnEntry(i, "T")],
     chars |-> [vid \in {V(i) : i \in 1..n} |->
                  LET i == PyInt(Tail(vid))
                  IN  IF i \in empties THEN << <<>> >>
                      ELSE IF i = 1
                      THEN << <<SimpleChar(1, "N")>>, <<SimpleChar(1, "M")>> >>
                      ELSE << <<SimpleChar(i, "N")>> >>],
     top |-> <<>>]

\* the catalog with `n` pages in its sorted VN listing
ClientRemote(n) ==
    LET all == <<<<VnEntry(2, "Two"), VnEntry(10, "Ten")>>, <<VnEntry(1, "One")>>,
                 <<VnEntry(3, "Three")>>, <<VnEntry(4, "Four")>>>>
    IN  [CliRemote(GoodBirthday) EXCEPT !.top = SubSeq(all, 1, n)]

\* the catalog a descriptor stands for
Catalog(r) ==
    CASE r.kind = "cli" -> CliRemote(r.bday)
      [] r.kind = "fetch" -> FetchRemote(r.n, r.empties)
      [] r.kind = "client" -> ClientRemote(r.n)

\* one page of the character-by-VN resource: [results, more]
CharPage(rem, vn_id, p) ==
    LET pages == IF vn_id \in DOMAIN rem.chars THEN rem.chars[vn_id] ELSE <<>>
    IN  [results |-> IF p \in 1..Len(pages) THEN pages[p] ELSE <<>>,
         more |-> p < Len(pages)]

\* one page of the VN resource under a sort
TopPage(rem, p) ==
    [results |-> IF p \in 1..Len(rem.top) THEN rem.top[p] ELSE <<>>,
     more |-> p < Len(rem.top)]

\* the VN resource filtered by id
VnById(rem, vn_id) ==
    LET P(vn) == vn["id"] = vn_id
    IN  [results |-> SelectSeq(rem.vns, P), more |-> FALSE]

NoFile == [kind |-> "absent", doc |-> <<>>]

\* the document a run `--vn_ids v2 --out F` leaves in F
StoreA ==
    LET tag(ch) == add_origin_to_character(ch, V(2))
        fetched == Map(tag, Concat(CliRemote(GoodBirthday).chars[V(2)]))
    IN  [kind |-> "db",
         doc |-> [characters |-> _sorted_by_id(prepare_records(fetched).val).val,
                  top_vns |-> <<VnEntry(2, "Two")>>,
                  version |-> VN_DB_VERSION,
                  date |-> "earlier"]]

\* a store whose catalog entries are v10, v2, in this order
StoreB == [StoreA EXCEPT !.doc.top_vns = <<VnEntry(10, "Ten"), VnEntry(2, "Two")>>]

\* the file a run `--raw --out F` leaves in F: a JSON list
RawFile == [kind |-> "raw", doc |-> <<CharD>>]

(***************************************************************************)
(* State                                                                   *)
(***************************************************************************)
VARIABLES
    args,       \* the parsed command line of the run
    remote,     \* which catalog the remote service holds: [kind, bday, n, empties]
    existing,   \* history: the file at --out as the run found it
    file,       \* the content of the file at args.out
    writes,     \* history: how many times the run wrote the file
    phases,     \* history: the steps of _cli that have completed
    stdout,     \* what the run printed: "none", "raw" or "records"
    outcome,    \* how the run or call ended: [status, exc, vn, n]
    pc,         \* the position of _cli
    k,          \* _cli: the index of the explicit id being looked up
    vn_ids,     \* _cli: vn_ids
    top_vns,    \* _cli: top_vns
    raw_chars,  \* _cli: raw_chars
    records,    \* _cli: records
    db_payload, \* _cli: db_payload
    fpc,        \* the position of fetch_characters
    ids,        \* fetch_characters: ids
    max_retries,            \* fetch_characters: max_retries
    sleep_between_batches,  \* fetch_characters: sleep_between_batches
    idx,        \* fetch_characters: the index in ids of vn_id
    attempt,    \* fetch_characters: attempt
    characters, \* fetch_characters: characters
    fetched_vns_since_pause, \* fetch_characters: fetched_vns_since_pause
    returned,   \* the value fetch_characters returned, Null before it does
    cpc,        \* the position of the client function being run
    cfn,        \* client: the function being run, "chars", "top" or "vn"
    cvn,        \* client: vn_id
    page,       \* client: page
    limit,      \* client: limit
    acc,        \* client: characters / vns / the looked-up entry
    cexc,       \* client: the exception it raised
    received,   \* history: the results of the pages this client call received
    slept,      \* history: the sleeps made, [warmup, item, batchAt, last]
    tries,      \* history: fetch attempts made for the current identity
    failures,   \* history: of these, the ones that raised a transport error
    idsSincePause, \* history: identities attempted since the last full sleep
    lastEvent,  \* history: the last request sent or sleep made
    mpc,        \* the merge step on its own: its position
    minput,     \* the merge step on its own: [store, records, top_vns, append]
    mout,       \* the merge step on its own: the payloads built, in order
    upc,        \* a pipeline function on its own: its position
    uin,        \* a pipeline function on its own: [fn, char, roster, min_overlap]
    uout        \* a pipeline function on its own: what it returned

mergeVars == <<mpc, minput, mout>>

utilVars == <<upc, uin, uout>>

\* what no step of a run changes
envVars == <<args, remote, existing, mergeVars, utilVars>>

outVars == <<file, stdout, writes, phases>>

cliVars == <<pc, k, vn_ids, top_vns, raw_chars, records, db_payload>>

fetchVars ==
    <<fpc, ids, max_retries, sleep_between_batches, idx, attempt, characters,
      fetched_vns_since_pause, returned>>

clientVars == <<cpc, cfn, cvn, page, limit, acc, cexc, received>>

histVars == <<slept, tries, failures, idsSincePause>>

vars ==
    <<envVars, outVars, outcome, cliVars, fetchVars, clientVars, histVars, lastEvent>>

Running == [status |-> "running", exc |-> "", vn |-> <<>>, n |-> 0]

Ok == [status |-> "ok", exc |-> "", vn |-> <<>>, n |-> 0]

\* sys.exit(code)
Exit(code) == [status |-> "exit", exc |-> "", vn |-> <<>>, n |-> code]

\* an exception nobody catches
Raised(exc) == [status |-> "raised", exc |-> exc, vn |-> <<>>, n |-> 0]

NoSleep == [warmup |-> 0, item |-> 0, batchAt |-> <<>>,
            last |-> [site |-> "none", num |-> 0, den |-> 1]]

Sleep(site, num, den) == [site |-> site, num |-> num, den |-> den]

(***************************************************************************)
(* vndb_client.py                                                          *)
(***************************************************************************)
\* lines 38-40: the 'v' prefix is added when it is missing
Canonical(vn_id) ==
    IF vn_id # <<>> /\ Head(vn_id) = "v" THEN vn_id ELSE <<"v">> \o vn_id

\* fetch_characters_by_vn_id, up to its loop
CharsEnter ==
    /\ cpc = "chars_call"
    /\ cvn' = Canonical(cvn)
    /\ acc' = <<>>
    /\ page' = 1
    /\ received' = <<>>
    /\ cpc' = "chars"
    /\ UNCHANGED <<envVars, outVars, outcome, cliVars, fetchVars, histVars,
                   limit, cfn, cexc, lastEvent>>

\* what the code does with the page it received: where it appends the results
CharsAccumulate(characters_, batch, more) == characters_ \o batch

\* one turn of the loop of fetch_characters_by_vn_id: a request that fails
\* (raise_for_status) or brings a page
CharsPageStep ==
    /\ cpc = "chars"
    /\ lastEvent' = "request:character"
    /\ \/ /\ cpc' = "raised"
          /\ cexc' = "RequestException"
          /\ UNCHANGED <<acc, page, received>>
       \/ LET data == CharPage(Catalog(remote), cvn, page)
          IN  /\ received' = Append(received, data.results)
              /\ acc' = CharsAccumulate(acc, data.results, data.more)
              /\ IF ~ data.more
                 THEN cpc' = "done" /\ page' = page
                 ELSE cpc' = "chars" /\ page' = page + 1
              /\ cexc' = cexc
    /\ UNCHANGED <<envVars, outVars, outcome, cliVars, fetchVars, histVars, cvn, limit, cfn>>

\* fetch_top_vns, up to its loop
TopEnter ==
    /\ cpc = "top_call"
    /\ acc' = <<>>
    /\ received' = <<>>
    /\ IF limit < 1
       THEN cpc' = "raised" /\ cexc' = "ValueError"
       ELSE cpc' = "top" /\ cexc' = cexc
    /\ UNCHANGED <<envVars, outVars, outcome, cliVars, fetchVars, histVars,
                   cvn, page, limit, cfn, lastEvent>>

\* what fetch_top_vns holds after the page it received: the break on the
\* last page comes before the extend
TopAccumulate(vns, batch, more) == IF ~ more THEN vns ELSE vns \o batch

\* one turn of the loop of fetch_top_vns
TopPageStep ==
    /\ cpc = "top"
    /\ page <= limit
    /\ lastEvent' = "request:vn_sorted"
    /\ \/ /\ cpc' = "raised"
          /\ cexc' = "RequestException"
          /\ UNCHANGED <<acc, page, received>>
       \/ LET data == TopPage(Catalog(remote), page)
          IN  /\ received' = Append(received, data.results)
              /\ acc' = TopAccumulate(acc, data.results, data.more)
              /\ IF ~ data.more
                 THEN cpc' = "done" /\ page' = page
                 ELSE cpc' = "top" /\ page' = page + 1
              /\ cexc' = cexc
    /\ UNCHANGED <<envVars, outVars, outcome, cliVars, fetchVars, histVars, cvn, limit, cfn>>

\* the loop of fetch_top_vns ends on page > limit
TopLoopEnd ==
    /\ cpc = "top"
    /\ page > limit
    /\ cpc' = "done"
    /\ UNCHANGED <<envVars, outVars, outcome, cliVars, fetchVars, histVars,
                   cvn, page, limit, cfn, acc, cexc, received, lastEvent>>

\* fetch_vn_name_by_id: one request, then results[0]
VnNameStep ==
    /\ cpc = "vn_call"
    /\ lastEvent' = "request:vn_by_id"
    /\ \/ /\ cpc' = "raised"
          /\ cexc' = "RequestException"
          /\ UNCHANGED <<acc, received>>
       \/ LET data == VnById(Catalog(remote), cvn)
          IN  /\ received' = <<data.results>>
              /\ IF data.results = <<>>
                 THEN cpc' = "raised" /\ cexc' = "IndexError" /\ acc' = acc
                 ELSE cpc' = "done" /\ cexc' = cexc /\ acc' = <<data.results[1]>>
    /\ UNCHANGED <<envVars, outVars, outcome, cliVars, fetchVars, histVars,
                   cvn, page, limit, cfn>>

(***************************************************************************)
(* vndb_cli.py: fetch_characters                                           *)
(***************************************************************************)
DefaultMaxRetries == 3

ItemDelay == 5

\* lines 111-120: the sleep before the first request
WarmupSleep ==
    /\ fpc = "call"
    /\ slept' = [slept EXCEPT !.warmup = @ + 1,
                              !.last = Sleep("warmup", sleep_between_batches, 1)]
    /\ lastEvent' = "sleep:warmup"
    /\ characters' = <<>>
    /\ fetched_vns_since_pause' = 0
    /\ idsSincePause' = 0
    /\ idx' = 1
    /\ fpc' = "item"
    /\ UNCHANGED <<envVars, outVars, outcome, cliVars, clientVars, ids, max_retries,
                   sleep_between_batches, attempt, returned, tries, failures>>

\* lines 122-124: the next identity and its sleep
ItemSleep ==
    /\ fpc = "item"
    /\ idx <= Len(ids)
    /\ slept' = [slept EXCEPT !.item = @ + 1, !.last = Sleep("item", ItemDelay, 1)]
    /\ lastEvent' = "sleep:item"
    /\ attempt' = 0
    /\ tries' = 0
    /\ failures' = 0
    /\ fpc' = IF 0 <= max_retries THEN "attempt" ELSE "batchcheck"
    /\ UNCHANGED <<envVars, outVars, outcome, cliVars, clientVars, ids, max_retries,
                   sleep_between_batches, idx, characters, fetched_vns_since_pause,
                   returned, idsSincePause>>

\* line 128: the call of fetch_characters_by_vn_id(vn_id)
Attempt ==
    /\ fpc = "attempt"
    /\ cpc = "idle"
    /\ cpc' = "chars_call"
    /\ cfn' = "chars"
    /\ cvn' = ids[idx]
    /\ tries' = tries + 1
    /\ idsSincePause' = IF attempt = 0 THEN idsSincePause + 1 ELSE idsSincePause
    /\ fpc' = "await"
    /\ UNCHANGED <<envVars, outVars, outcome, cliVars, ids, max_retries,
                   sleep_between_batches, idx, attempt, characters,
                   fetched_vns_since_pause, returned, page, limit, acc, cexc,
                   received, slept, failures, lastEvent>>

\* which fetches count towards the batch: line 136 is reached by a
\* non-empty batch only
CountsForBatch(batch) == batch # <<>>

\* lines 129-137: the fetch returned
AttemptReturned ==
    /\ fpc = "await"
    /\ cpc = "done"
    /\ LET batch == acc
           tag(char) == add_origin_to_character(char, ids[idx])
       IN  /\ characters' = IF batch = <<>> THEN characters
                            ELSE characters \o Map(tag, batch)
           /\ fetched_vns_since_pause' =
                 IF CountsForBatch(batch) THEN fetched_vns_since_pause + 1
                 ELSE fetched_vns_since_pause
    /\ cpc' = "idle"
    /\ fpc' = "batchcheck"
    /\ UNCHANGED <<envVars, outVars, outcome, cliVars, ids, max_retries,
                   sleep_between_batches, idx, attempt, returned, cfn, cvn, page, limit,
                   acc, cexc, received, histVars, lastEvent>>

\* line 140 with the comparison off by one
GivesUpLate(attempt_, max_retries_) == attempt_ > max_retries_

\* line 140
GivesUp(attempt_, max_retries_) == attempt_ >= max_retries_

\* lines 139-143: the transport error of the last attempt
GiveUp ==
    /\ fpc = "await"
    /\ cpc = "raised"
    /\ cexc = "RequestException"
    /\ GivesUp(attempt, max_retries)
    /\ failures' = failures + 1
    /\ outcome' = [status |-> "raised", exc |-> "RuntimeError", vn |-> ids[idx],
                   n |-> max_retries]
    /\ fpc' = "raised"
    /\ cpc' = "idle"
    /\ UNCHANGED <<envVars, outVars, cliVars, ids, max_retries, sleep_between_batches,
                   idx, attempt, characters, fetched_vns_since_pause, returned, cfn, cvn,
                   page, limit, acc, cexc, received, slept, tries, idsSincePause,
                   lastEvent>>

\* lines 139-147: the transport error of an earlier attempt, the back-off
\* sleep, and the next turn of `for attempt in range(max_retries + 1)`
RetrySleep ==
    /\ fpc = "await"
    /\ cpc = "raised"
    /\ cexc = "RequestException"
    /\ ~ GivesUp(attempt, max_retries)
    /\ failures' = failures + 1
    /\ LET delay == _backoff_delay(attempt)
       IN  slept' = [slept EXCEPT !.last = Sleep("backoff", delay.num, delay.den)]
    /\ lastEvent' = "sleep:backoff"
    /\ attempt' = attempt + 1
    /\ fpc' = IF attempt + 1 <= max_retries THEN "attempt" ELSE "batchcheck"
    /\ cpc' = "idle"
    /\ UNCHANGED <<envVars, outVars, outcome, cliVars, ids, max_retries,
                   sleep_between_batches, idx, characters, fetched_vns_since_pause,
                   returned, cfn, cvn, page, limit, acc, cexc, received, tries,
                   idsSincePause>>

\* lines 149-156: the pause after a batch, then the next identity
BatchCheck ==
    /\ fpc = "batchcheck"
    /\ IF fetched_vns_since_pause >= MAX_CHAR_BATCH
       THEN /\ slept' = [slept EXCEPT !.batchAt = Append(@, idx),
                                      !.last = Sleep("batch", sleep_between_batches, 1)]
            /\ lastEvent' = "sleep:batch"
            /\ fetched_vns_since_pause' = 0
            /\ idsSincePause' = 0
       ELSE UNCHANGED <<slept, lastEvent, fetched_vns_since_pause, idsSincePause>>
    /\ idx' = idx + 1
    /\ fpc' = "item"
    /\ UNCHANGED <<envVars, outVars, outcome, cliVars, clientVars, ids, max_retries,
                   sleep_between_batches, attempt, characters, returned, tries,
                   failures>>

\* line 158
FetchReturn ==
    /\ fpc = "item"
    /\ idx > Len(ids)
    /\ returned' = List(characters)
    /\ fpc' = "returned"
    /\ UNCHANGED <<envVars, outVars, outcome, cliVars, clientVars, ids, max_retries,
                   sleep_between_batches, idx, attempt, characters,
                   fetched_vns_since_pause, histVars, lastEvent>>

FetchNext ==
    \/ WarmupSleep
    \/ ItemSleep
    \/ Attempt
    \/ CharsEnter
    \/ CharsPageStep
    \/ AttemptReturned
    \/ GiveUp
    \/ RetrySleep
    \/ BatchCheck
    \/ FetchReturn

(***************************************************************************)
(* vndb_cli.py: _cli                                                       *)
(***************************************************************************)
\* _read_json: the parsed document, {} when the path does not exist
_read_json(f) == IF f.kind = "absent" THEN <<>> ELSE f.doc

\* existing_db.get(...) needs a dict: a JSON list has no get
IsDict(f) == f.kind # "raw"

\* int(x) of a float x >= 0 given as a fraction: truncation
IntOfFloat(x) == x.num \div x.den

\* lines 253-257
CliBegin ==
    /\ pc = "start"
    /\ vn_ids' = args.vn_ids
    /\ top_vns' = <<>>
    /\ k' = 1
    /\ pc' = "lookup"
    /\ UNCHANGED <<envVars, outVars, outcome, raw_chars, records, db_payload,
                   fetchVars, clientVars, histVars, lastEvent>>

\* line 258: fetch_vn_name_by_id(i) for the next explicit id
LookupCall ==
    /\ pc = "lookup"
    /\ k <= Len(args.vn_ids)
    /\ cpc' = "vn_call"
    /\ cfn' = "vn"
    /\ cvn' = args.vn_ids[k]
    /\ pc' = "lookup_wait"
    /\ UNCHANGED <<envVars, outVars, outcome, k, vn_ids, top_vns, raw_chars, records,
                   db_payload, fetchVars, page, limit, acc, cexc, received, histVars,
                   lastEvent>>

LookupReturn ==
    /\ pc = "lookup_wait"
    /\ cpc = "done"
    /\ top_vns' = Append(top_vns, acc[1])
    /\ k' = k + 1
    /\ cpc' = "idle"
    /\ pc' = "lookup"
    /\ UNCHANGED <<envVars, outVars, outcome, vn_ids, raw_chars, records, db_payload,
                   fetchVars, cfn, cvn, page, limit, acc, cexc, received, histVars,
                   lastEvent>>

\* an exception of the client that _cli does not catch ends the run
Propagate ==
    /\ pc \in {"lookup_wait", "top_wait"}
    /\ cpc = "raised"
    /\ outcome' = Raised(cexc)
    /\ cpc' = "idle"
    /\ pc' = "end"
    /\ UNCHANGED <<envVars, outVars, k, vn_ids, top_vns, raw_chars, records,
                   db_payload, fetchVars, cfn, cvn, page, limit, acc, cexc, received,
                   histVars, lastEvent>>

\* lines 260-262
TopCall ==
    /\ pc = "lookup"
    /\ k > Len(args.vn_ids)
    /\ IF args.top_vns # 0
       THEN /\ cpc' = "top_call"
            /\ cfn' = "top"
            /\ limit' = args.top_vns
            /\ page' = args.start
            /\ pc' = "top_wait"
       ELSE /\ pc' = "ids"
            /\ UNCHANGED <<cpc, cfn, limit, page>>
    /\ UNCHANGED <<envVars, outVars, outcome, k, vn_ids, top_vns, raw_chars, records,
                   db_payload, fetchVars, cvn, acc, cexc, received, histVars, lastEvent>>

\* lines 263-267
TopReturn ==
    /\ pc = "top_wait"
    /\ cpc = "done"
    /\ cpc' = "idle"
    /\ LET top_vns_batch == acc
           IdOf(vn) == vn["id"]
       IN  IF top_vns_batch = <<>>
           THEN /\ outcome' = Exit(1)
                /\ pc' = "end"
                /\ UNCHANGED <<top_vns, vn_ids>>
           ELSE /\ top_vns' = top_vns \o top_vns_batch
                /\ vn_ids' = vn_ids \o Map(IdOf, top_vns_batch)
                /\ pc' = "ids"
                /\ outcome' = outcome
    /\ UNCHANGED <<envVars, outVars, k, raw_chars, records, db_payload, fetchVars,
                   cfn, cvn, page, limit, acc, cexc, received, histVars, lastEvent>>

\* line 280 without its filter
MissingIdsUnfiltered(vn_ids_, existing_db) == vn_ids_

\* line 280: the identities the store's catalog entries do not hold
MissingIds(vn_ids_, existing_db) ==
    LET existing_ids == {rec["id"] : rec \in Range(Get(existing_db, "top_vns", <<>>))}
        Missing(vn_id) == vn_id \notin existing_ids
    IN  SelectSeq(vn_ids_, Missing)

\* lines 270-280: the identity list _cli goes on with, [exc, val]
IdsToFetch(vn_ids_, a, f) ==
    LET u == _unique(vn_ids_)
    IN  IF u = <<>> THEN [exc |-> "none", val |-> u]
        ELSE IF a.out /\ a.append
        THEN IF ~ IsDict(f) THEN [exc |-> "AttributeError", val |-> <<>>]
             ELSE [exc |-> "none", val |-> MissingIds(u, _read_json(f))]
        ELSE [exc |-> "none", val |-> u]

\* lines 270-293: the identity list, and the call of fetch_characters
PrepareIds ==
    /\ pc = "ids"
    /\ LET r == IdsToFetch(vn_ids, args, file)
       IN  IF r.exc # "none"
           THEN /\ outcome' = Raised(r.exc)
                /\ pc' = "end"
                /\ UNCHANGED <<vn_ids, fpc, ids, max_retries, sleep_between_batches>>
           ELSE IF r.val = <<>>
           THEN /\ outcome' = Exit(1)
                /\ pc' = "end"
                /\ vn_ids' = r.val
                /\ UNCHANGED <<fpc, ids, max_retries, sleep_between_batches>>
           ELSE /\ vn_ids' = r.val
                /\ ids' = r.val
                /\ max_retries' = DefaultMaxRetries
                /\ sleep_between_batches' = IntOfFloat(args.sleep)
                /\ fpc' = "call"
                /\ pc' = "fetch"
                /\ outcome' = outcome
    /\ UNCHANGED <<envVars, outVars, k, top_vns, raw_chars, records, db_payload, idx,
                   attempt, characters, fetched_vns_since_pause, returned,
                   clientVars, histVars, lastEvent>>

\* lines 293-303 with the raw characters flushed to --out before they are
\* normalised
AfterFetchCheckpoint ==
    /\ pc = "fetch"
    /\ fpc = "returned"
    /\ raw_chars' = returned.v
    /\ phases' = phases \cup {"fetch"}
    /\ IF returned.v = <<>>
       THEN /\ outcome' = Exit(1)
            /\ pc' = "end"
            /\ UNCHANGED <<file, stdout, writes>>
       ELSE /\ IF args.out
               THEN /\ file' = [kind |-> "raw", doc |-> returned.v]
                    /\ writes' = writes + 1
                    /\ stdout' = stdout
               ELSE /\ stdout' = IF args.raw THEN "raw" ELSE stdout
                    /\ UNCHANGED <<file, writes>>
            /\ outcome' = IF args.raw THEN Ok ELSE outcome
            /\ pc' = IF args.raw THEN "end" ELSE "normalise"
    /\ UNCHANGED <<envVars, k, vn_ids, top_vns, records, db_payload, fetchVars,
                   clientVars, histVars, lastEvent>>

\* lines 293-303
AfterFetch ==
    /\ pc = "fetch"
    /\ fpc = "returned"
    /\ raw_chars' = returned.v
    /\ phases' = phases \cup {"fetch"}
    /\ IF returned.v = <<>>
       THEN /\ outcome' = Exit(1)
            /\ pc' = "end"
            /\ UNCHANGED <<file, stdout, writes>>
       ELSE IF args.raw
       THEN /\ IF args.out
               THEN /\ file' = [kind |-> "raw", doc |-> returned.v]
                    /\ writes' = writes + 1
                    /\ stdout' = stdout
               ELSE /\ stdout' = "raw"
                    /\ UNCHANGED <<file, writes>>
            /\ outcome' = Ok
            /\ pc' = "end"
       ELSE /\ pc' = "normalise"
            /\ UNCHANGED <<file, stdout, writes, outcome>>
    /\ UNCHANGED <<envVars, k, vn_ids, top_vns, records, db_payload, fetchVars,
                   clientVars, histVars, lastEvent>>

\* line 308: prepare_records labels the characters, then normalises them
Normalise ==
    /\ pc = "normalise"
    /\ LET r == prepare_records(raw_chars)
       IN  IF r.exc # "none"
           THEN /\ outcome' = Raised(r.exc)
                /\ pc' = "end"
                /\ UNCHANGED <<records, phases>>
           ELSE /\ records' = r.val
                /\ phases' = phases \cup {"label", "normalise"}
                /\ pc' = "persist"
                /\ outcome' = outcome
    /\ UNCHANGED <<envVars, file, stdout, writes, k, vn_ids, top_vns, raw_chars,
                   db_payload, fetchVars, clientVars, histVars, lastEvent>>

\* lines 317-319
MergeRecords(existing_db, records_, append) ==
    IF append THEN remove_duplicates(Get(existing_db, "characters", <<>>) \o records_)
    ELSE records_

\* line 328
MergeTopVns(existing_db, top_vns_, append) ==
    IF append THEN remove_duplicates_in_vns(Get(existing_db, "top_vns", <<>>) \o top_vns_)
    ELSE top_vns_

\* lines 315-336: db_payload, [exc, val]
BuildPayload(existing_db, records_, top_vns_, append) ==
    LET merged_records == _sorted_by_id(MergeRecords(existing_db, records_, append))
        merged_top_vns == _sorted_by_id(MergeTopVns(existing_db, top_vns_, append))
    IN  IF merged_records.exc # "none" THEN [exc |-> merged_records.exc, val |-> <<>>]
        ELSE IF merged_top_vns.exc # "none"
        THEN [exc |-> merged_top_vns.exc, val |-> <<>>]
        ELSE [exc |-> "none",
              val |-> [characters |-> merged_records.val,
                       top_vns |-> merged_top_vns.val,
                       version |-> VN_DB_VERSION,
                       date |-> "now"]]

\* lines 314-336, and 340-342 without --out
Merge ==
    /\ pc = "persist"
    /\ IF args.out
       THEN IF args.append /\ ~ IsDict(file)
            THEN /\ outcome' = Raised("AttributeError")
                 /\ pc' = "end"
                 /\ UNCHANGED <<db_payload, stdout, phases>>
            ELSE LET existing_db == IF args.append THEN _read_json(file) ELSE <<>>
                     r == BuildPayload(existing_db, records, top_vns, args.append)
                 IN  IF r.exc # "none"
                     THEN /\ outcome' = Raised(r.exc)
                          /\ pc' = "end"
                          /\ UNCHANGED <<db_payload, stdout, phases>>
                     ELSE /\ db_payload' = r.val
                          /\ phases' = phases \cup {"merge"}
                          /\ pc' = "write"
                          /\ UNCHANGED <<outcome, stdout>>
       ELSE /\ stdout' = "records"
            /\ outcome' = Ok
            /\ pc' = "end"
            /\ UNCHANGED <<db_payload, phases>>
    /\ UNCHANGED <<envVars, file, writes, k, vn_ids, top_vns, raw_chars, records,
                   fetchVars, clientVars, histVars, lastEvent>>

\* line 337: _write_json(args.out, db_payload)
Write ==
    /\ pc = "write"
    /\ file' = [kind |-> "db", doc |-> db_payload]
    /\ writes' = writes + 1
    /\ outcome' = Ok
    /\ pc' = "end"
    /\ UNCHANGED <<envVars, stdout, phases, k, vn_ids, top_vns, raw_chars, records,
                   db_payload, fetchVars, clientVars, histVars, lastEvent>>

(***************************************************************************)
(* Specifications                                                          *)
(***************************************************************************)
MaxArgIds == 2

MaxIds == 30

MaxRetries == 2

MaxLimit == 3

MaxStart == 2

MaxTopPages == 3

SeqsUpTo(S, n) == UNION {[1..m -> S] : m \in 0..n}

\* --vn_ids
ArgIdLists == SeqsUpTo({V(1), V(2), V(10)}, MaxArgIds)

\* --top-vns and --start
TopArgs == {<<0, 1>>, <<1, 1>>, <<1, 2>>}

\* --sleep 300.5
SleepArg == [num |-> 601, den |-> 2]

\* the files a run may find at --out
Files == <<NoFile, StoreA, StoreB, RawFile>>

NoArgs ==
    [vn_ids |-> <<>>, top_vns |-> 0, start |-> 1, out |-> FALSE, append |-> FALSE,
     raw |-> FALSE, sleep |-> SleepArg]

CliIdle ==
    /\ k = 1
    /\ vn_ids = <<>>
    /\ top_vns = <<>>
    /\ raw_chars = <<>>
    /\ records = <<>>
    /\ db_payload = <<>>

FetchIdle ==
    /\ ids = <<>>
    /\ max_retries = 0
    /\ sleep_between_batches = 0
    /\ idx = 1
    /\ attempt = 0
    /\ characters = <<>>
    /\ fetched_vns_since_pause = 0
    /\ returned = Null

ClientIdle ==
    /\ cfn = "none"
    /\ cvn = <<>>
    /\ page = 1
    /\ limit = 0
    /\ acc = <<>>
    /\ cexc = ""
    /\ received = <<>>

MergeIdle ==
    /\ mpc = "none"
    /\ minput = <<>>
    /\ mout = <<>>

UtilIdle ==
    /\ upc = "none"
    /\ uin = <<>>
    /\ uout = <<>>

HistIdle ==
    /\ writes = 0
    /\ phases = {}
    /\ slept = NoSleep
    /\ tries = 0
    /\ failures = 0
    /\ idsSincePause = 0
    /\ lastEvent = "none"

\* a run of _cli from its command line
Init ==
    /\ \E l \in ArgIdLists, t \in TopArgs, o \in BOOLEAN, a \in BOOLEAN, r \in BOOLEAN :
          args = [vn_ids |-> l, top_vns |-> t[1], start |-> t[2], out |-> o,
                  append |-> a, raw |-> r, sleep |-> SleepArg]
    /\ \E b \in {GoodBirthday, BadBirthday} :
          remote = [kind |-> "cli", bday |-> b, n |-> 0, empties |-> {}]
    /\ \E i \in {j \in 1..Len(Files) : args.out \/ j = 1} : existing = Files[i]
    /\ file = existing
    /\ stdout = "none"
    /\ outcome = Running
    /\ pc = "start"
    /\ fpc = "none"
    /\ cpc = "idle"
    /\ CliIdle
    /\ FetchIdle
    /\ ClientIdle
    /\ HistIdle
    /\ MergeIdle
    /\ UtilIdle

Next ==
    \/ CliBegin
    \/ LookupCall
    \/ VnNameStep
    \/ LookupReturn
    \/ Propagate
    \/ TopCall
    \/ TopEnter
    \/ TopPageStep
    \/ TopLoopEnd
    \/ TopReturn
    \/ PrepareIds
    \/ FetchNext
    \/ AfterFetch
    \/ Normalise
    \/ Merge
    \/ Write

Spec == Init /\ [][Next]_vars

\* the VNs of a direct call that have no characters
EmptyChoices == {{}, {2}, 2..7}

PacingChoices == {300}

\* a direct call fetch_characters(ids, max_retries=m, sleep_between_batches=p)
InitFetch ==
    /\ args = NoArgs
    /\ \E n \in 0..MaxIds, e \in EmptyChoices :
          /\ remote = [kind |-> "fetch", bday |-> <<>>, n |-> n, empties |-> e]
          /\ ids = [i \in 1..n |-> V(i)]
    /\ max_retries \in 0..MaxRetries
    /\ sleep_between_batches \in PacingChoices
    /\ existing = NoFile
    /\ file = NoFile
    /\ stdout = "none"
    /\ outcome = Running
    /\ pc = "direct"
    /\ fpc = "call"
    /\ cpc = "idle"
    /\ CliIdle
    /\ idx = 1
    /\ attempt = 0
    /\ characters = <<>>
    /\ fetched_vns_since_pause = 0
    /\ returned = Null
    /\ ClientIdle
    /\ HistIdle
    /\ MergeIdle
    /\ UtilIdle

SpecFetch == InitFetch /\ [][FetchNext]_vars

\* a direct call of one of the three client functions
InitClient ==
    /\ args = NoArgs
    /\ \E n \in 0..MaxTopPages :
          remote = [kind |-> "client", bday |-> <<>>, n |-> n, empties |-> {}]
    /\ \/ /\ \E f \in {"chars", "vn"} : cfn = f /\ cpc = IF f = "chars" THEN "chars_call" ELSE "vn_call"
          /\ cvn \in {V(1), V(2), V(10), V(3), <<"1">>}
          /\ page = 1
          /\ limit = 0
       \/ /\ cpc = "top_call"
          /\ cfn = "top"
          /\ cvn = <<>>
          /\ page \in 1..MaxStart
          /\ limit \in 0..MaxLimit
    /\ acc = <<>>
    /\ cexc = ""
    /\ received = <<>>
    /\ existing = NoFile
    /\ file = NoFile
    /\ stdout = "none"
    /\ outcome = Running
    /\ pc = "direct"
    /\ fpc = "none"
    /\ CliIdle
    /\ FetchIdle
    /\ HistIdle
    /\ MergeIdle
    /\ UtilIdle

ClientNext ==
    \/ CharsEnter
    \/ CharsPageStep
    \/ TopEnter
    \/ TopPageStep
    \/ TopLoopEnd
    \/ VnNameStep

SpecClient == InitClient /\ [][ClientNext]_vars

MaxMergeLen == 2

\* persisted characters: c1/A as two different records, c1/B, c2/C, c10/D
MergeRecs ==
    <<[id |-> C(1), name |-> "A", origin |-> V(1)],
      [id |-> C(1), name |-> "A", origin |-> V(2)],
      [id |-> C(1), name |-> "B", origin |-> V(1)],
      [id |-> C(2), name |-> "C", origin |-> V(1)],
      [id |-> C(10), name |-> "D", origin |-> V(1)]>>

\* the catalog entry that goes with a character of the merge inputs: the
\* same number, the character's name as its title
VnOfRec(rec) == [id |-> <<"v">> \o Tail(rec["id"]), title |-> rec["name"]]

MergeLists == {Map(LAMBDA i : MergeRecs[i], l) : l \in SeqsUpTo(1..Len(MergeRecs), MaxMergeLen)}

\* the merge step of _cli on a store and the new records of a run
InitMerge ==
    /\ \E st \in MergeLists, new \in MergeLists, a \in BOOLEAN :
          minput = [store |-> [characters |-> st, top_vns |-> Map(VnOfRec, st),
                               version |-> VN_DB_VERSION, date |-> "earlier"],
                    records |-> new, top_vns |-> Map(VnOfRec, new), append |-> a]
    /\ mpc = "start"
    /\ mout = <<>>
    /\ UtilIdle
    /\ args = NoArgs
    /\ remote = [kind |-> "client", bday |-> <<>>, n |-> 0, empties |-> {}]
    /\ existing = NoFile
    /\ file = NoFile
    /\ stdout = "none"
    /\ outcome = Running
    /\ pc = "direct"
    /\ fpc = "none"
    /\ cpc = "idle"
    /\ CliIdle
    /\ FetchIdle
    /\ ClientIdle
    /\ HistIdle

\* lines 315-336 against the store the run found
MergeFirst ==
    /\ mpc = "start"
    /\ mout' = <<BuildPayload(minput.store, minput.records, minput.top_vns,
                              minput.append).val>>
    /\ mpc' = "once"
    /\ UNCHANGED <<args, remote, existing, minput, utilVars, outVars, outcome, cliVars, fetchVars,
                   clientVars, histVars, lastEvent>>

\* lines 315-336 again, against the store the first merge produced
MergeSecond ==
    /\ mpc = "once"
    /\ mout' = Append(mout, BuildPayload(mout[1], minput.records, minput.top_vns,
                                         minput.append).val)
    /\ mpc' = "twice"
    /\ UNCHANGED <<args, remote, existing, minput, utilVars, outVars, outcome, cliVars, fetchVars,
                   clientVars, histVars, lastEvent>>

MergeNext ==
    \/ MergeFirst
    \/ MergeSecond

SpecMerge == InitMerge /\ [][MergeNext]_vars

(***************************************************************************)
(* The labelling and normalisation functions called on their own           *)
(***************************************************************************)
MaxTraits == 3

MaxRoster == 2

MaxVns == 2

\* traits as the character resource lists them: two of one desired group,
\* one of a group the denylist matches, one of a group nobody asks for
TraitPool ==
    <<Trait("i1", "Kind", "Personality"), Trait("i2", "Brave", "Personality"),
      Trait("i3", "Blond", "Hair"), Trait("i5", "Student", "Role"),
      Trait("i6", "Lewd", "Engages in (Sexual)"), Trait("i7", "Cooking", "Engages in")>>

\* the trait lists of a character: no trait twice
TraitLists ==
    {l \in SeqsUpTo({TraitPool[i] : i \in 1..Len(TraitPool)}, MaxTraits) :
        \A i \in 1..Len(l) : \A j \in 1..Len(l) : i # j => l[i] # l[j]}

WithTraits(n, traits) == [id |-> C(n), name |-> "A", age |-> Num(17), traits |-> traits]

\* a character record with no `traits` key
NoTraitsChar == [id |-> C(1), name |-> "A", age |-> Num(17)]

\* the rest of the roster
RosterMates ==
    {WithTraits(2, <<TraitPool[1], TraitPool[3]>>),
     WithTraits(3, <<TraitPool[4], TraitPool[5], TraitPool[2]>>),
     WithTraits(4, <<TraitPool[3], TraitPool[6]>>)}

\* VN associations: two of v1, three of v2 of which one lists no developer
\* and one carries nothing but its id
AssocPool ==
    {VnAssoc(V(1), "main", "2004-01-30", "Dev1"),
     VnAssoc(V(1), "primary", "2005-05-05", "Dev9"),
     VnAssoc(V(2), "main", "2010-05-01", "Dev2"),
     [VnAssoc(V(2), "primary", "2011-11-11", "Dev3") EXCEPT !.developers = <<>>],
     [id |-> V(2)]}

\* records as normalize_origin_entry meets them: with or without vns, with
\* or without an origin, with or without a developer field of their own
OriginChars ==
    LET base == {NoTraitsChar, Put(NoTraitsChar, "developer", Str("Old"))}
        withVns == base \cup {Put(b, "vns", l) : b \in base, l \in SeqsUpTo(AssocPool, MaxVns)}
    IN  withVns \cup {add_origin_to_character(c, V(n)) : c \in withVns, n \in 1..3}

UtilInput(fn, char, roster, min_overlap) ==
    [fn |-> fn, char |-> char, roster |-> roster, min_overlap |-> min_overlap]

\* one call of clean_character_traits, select_signature_trait or
\* normalize_origin_entry
InitUtil ==
    /\ \/ \E c \in {WithTraits(1, l) : l \in TraitLists} \cup {NoTraitsChar} :
             uin = UtilInput("clean", c, <<>>, 0)
       \/ \E c \in {WithTraits(1, l) : l \in TraitLists} \cup {NoTraitsChar},
             mates \in SeqsUpTo(RosterMates, MaxRoster), m \in {1, 2} :
             uin = UtilInput("select", c, <<c>> \o mates, m)
       \/ \E c \in OriginChars : uin = UtilInput("origin", c, <<>>, 0)
    /\ upc = "start"
    /\ uout = <<>>
    /\ args = NoArgs
    /\ remote = [kind |-> "client", bday |-> <<>>, n |-> 0, empties |-> {}]
    /\ existing = NoFile
    /\ file = NoFile
    /\ stdout = "none"
    /\ outcome = Running
    /\ pc = "direct"
    /\ fpc = "none"
    /\ cpc = "idle"
    /\ CliIdle
    /\ FetchIdle
    /\ ClientIdle
    /\ MergeIdle
    /\ HistIdle

\* vndb_cli.py line 191: clean_character_traits(c)
CleanCall ==
    /\ upc = "start"
    /\ uin.fn = "clean"
    /\ uout' = clean_character_traits(uin.char)
    /\ upc' = "done"
    /\ UNCHANGED <<args, remote, existing, mergeVars, uin, outVars, outcome, cliVars,
                   fetchVars, clientVars, histVars, lastEvent>>

\* vndb_data_utils.py lines 101-104: the frequencies of the roster, then
\* select_signature_trait for one of its characters
SelectCall ==
    /\ upc = "start"
    /\ uin.fn = "select"
    /\ uout' = select_signature_trait(uin.char, collect_frequencies(uin.roster),
                                      uin.min_overlap)
    /\ upc' = "done"
    /\ UNCHANGED <<args, remote, existing, mergeVars, uin, outVars, outcome, cliVars,
                   fetchVars, clientVars, histVars, lastEvent>>

\* vndb_cli.py line 195: normalize_origin_entry(c)
OriginCall ==
    /\ upc = "start"
    /\ uin.fn = "origin"
    /\ uout' = normalize_origin_entry(uin.char)
    /\ upc' = "done"
    /\ UNCHANGED <<args, remote, existing, mergeVars, uin, outVars, outcome, cliVars,
                   fetchVars, clientVars, histVars, lastEvent>>

UtilNext ==
    \/ CleanCall
    \/ SelectCall
    \/ OriginCall

SpecUtil == InitUtil /\ [][UtilNext]_vars

(***************************************************************************)
(* Properties                                                              *)
(***************************************************************************)
IdOf(o) == o["id"]

NoDuplicateKeys(Key(_), s) ==
    \A i \in 1..Len(s) : \A j \in 1..Len(s) : i # j => Key(s[i]) # Key(s[j])

\* the elements of s whose key no earlier element has, in the order of s
FirstOccurrences(Key(_), s) ==
    LET firsts == {i \in 1..Len(s) : \A j \in 1..(i - 1) : Key(s[j]) # Key(s[i])}
        Nth(n) == CHOOSE i \in firsts : Cardinality({j \in firsts : j <= i}) = n
    IN  [n \in 1..Cardinality(firsts) |-> s[Nth(n)]]

FirstIndex(s, x) == CHOOSE i \in 1..Len(s) : s[i] = x /\ \A j \in 1..(i - 1) : s[j] # x

\* out is req without its repetitions and without the members of excl
IsOrderedDifference(out, req, excl) ==
    /\ Range(out) = Range(req) \ excl
    /\ \A i \in 1..Len(out) : \A j \in 1..Len(out) :
          i < j => out[i] # out[j] /\ FirstIndex(req, out[i]) < FirstIndex(req, out[j])

\* ascending by the number after the type letter
SortedNumerically(s) ==
    \A i \in 1..(Len(s) - 1) : PyInt(Tail(s[i]["id"])) <= PyInt(Tail(s[i + 1]["id"]))

SameFile(f, g) == f.kind = g.kind /\ f.doc = g.doc

Failed == outcome.status \in {"exit", "raised"}

\* the run wrote a store document
WroteStore == writes > 0 /\ file.kind = "db"

IsRequest(e) == e \in {"request:character", "request:vn_by_id", "request:vn_sorted"}

\* C1: fetch_characters makes at most max_retries + 1 attempts for one
\* identity; when all of them raise a transport error the call raises a
\* RuntimeError naming that identity, returns no list, and does nothing more.
C1_RetryThenFail ==
    /\ tries <= max_retries + 1
    /\ failures = max_retries + 1 => fpc = "raised"
    /\ fpc = "raised" =>
          /\ failures = max_retries + 1
          /\ tries = max_retries + 1
          /\ outcome.status = "raised"
          /\ outcome.exc = "RuntimeError"
          /\ outcome.vn = ids[idx]
          /\ returned = Null
          /\ ~ ENABLED FetchNext

\* a call that gave up on an identity after characters of earlier ones had
\* been fetched, with identities still to come
C1_Witness ==
    /\ fpc = "raised"
    /\ max_retries >= 1
    /\ characters # <<>>
    /\ idx < Len(ids)

\* C2: for 30 identities, the full interval is slept exactly twice, before
\* the first request and after the 25th identity.
C2_TwoFullSleeps ==
    fpc = "returned" /\ Len(ids) = 30 =>
        /\ slept.warmup = 1
        /\ slept.batchAt = <<MAX_CHAR_BATCH>>

\* C3: no request of any kind precedes the warm-up sleep, and every
\* identity's fetch follows that identity's own per-item sleep.
C3_PacedRequests ==
    /\ IsRequest(lastEvent) => slept.warmup >= 1
    /\ lastEvent = "request:character" => slept.item = idx

\* C4 as stated: a run that fails leaves the file as it was, and the file is
\* written at most once, only after fetching, labelling, normalisation and
\* merging.
C4_WriteOnlyAfterMerge ==
    /\ Failed => SameFile(file, existing)
    /\ writes <= 1
    /\ writes = 1 => {"fetch", "label", "normalise", "merge"} \subseteq phases

\* C4 as amended: a run that fails leaves the file as it was, and the file is
\* written at most once: either a store document, after fetching, labelling,
\* normalisation and merging, or, in a --raw run, the raw character list,
\* after fetching alone.
C4_NoPartialPersistence ==
    /\ Failed => SameFile(file, existing)
    /\ writes <= 1
    /\ writes = 1 =>
          \/ /\ file.kind = "db"
             /\ file.doc = db_payload
             /\ {"fetch", "label", "normalise", "merge"} \subseteq phases
          \/ /\ args.raw
             /\ file.kind = "raw"
             /\ file.doc = raw_chars
             /\ phases = {"fetch"}

\* a run that fetched characters, failed in normalisation, and had a store
\* to lose
C4_Witness ==
    /\ outcome = Raised("ValueError")
    /\ "fetch" \in phases
    /\ existing.kind = "db"
    /\ existing.doc.characters # <<>>

\* the identities of the catalog entries of the store the run started from
StoreIds == {IdOf(vn) : vn \in Range(Get(_read_json(existing), "top_vns", <<>>))}

\* the identities the run was asked for: the explicit ones, then the ones of
\* the top-VN query
Requested ==
    args.vn_ids \o Map(IdOf, SubSeq(top_vns, Len(args.vn_ids) + 1, Len(top_vns)))

\* C5: in append mode fetch_characters gets the requested identities,
\* without repetitions and in order, minus the ids of the store's catalog
\* entries; no request is made for an id of the store; and when nothing is
\* left fetch_characters is not called.
C5_AppendFetchesMissingOnly ==
    args.out /\ args.append /\ IsDict(existing) =>
        /\ fpc # "none" => ids # <<>> /\ IsOrderedDifference(ids, Requested, StoreIds)
        /\ lastEvent = "request:character" => cvn \notin StoreIds
        /\ Range(Requested) \subseteq StoreIds => fpc = "none"

\* an append run asked for an identity of the store and for a new one
C5_Witness ==
    /\ args.out
    /\ args.append
    /\ fpc = "returned"
    /\ Range(Requested) \cap StoreIds # {}
    /\ Len(ids) < Len(_unique(Requested))

\* C6: a written store has no two characters with the same (id, name) and no
\* two catalog entries with the same id.
C6_UniqueIdentities ==
    WroteStore =>
        /\ NoDuplicateKeys(CharKey, file.doc.characters)
        /\ NoDuplicateKeys(VnKey, file.doc.top_vns)

\* C7: merging the same new records a second time, into the store the first
\* merge produced, gives the same characters and catalog entries; and each
\* de-duplication is a fixed point.
C7_MergeIdempotent ==
    mpc = "twice" /\ minput.append =>
        LET all == minput.store.characters \o minput.records
            allVns == minput.store.top_vns \o minput.top_vns
        IN  /\ mout[2].characters = mout[1].characters
            /\ mout[2].top_vns = mout[1].top_vns
            /\ remove_duplicates(remove_duplicates(all)) = remove_duplicates(all)
            /\ remove_duplicates_in_vns(remove_duplicates_in_vns(allVns))
                  = remove_duplicates_in_vns(allVns)

\* a second merge after a first one that dropped duplicates and reordered
C7_Witness ==
    /\ mpc = "twice"
    /\ minput.append
    /\ minput.store.characters # <<>>
    /\ minput.records # <<>>
    /\ Len(mout[1].characters) < Len(minput.store.characters) + Len(minput.records)
    /\ mout[1].characters # remove_duplicates(minput.store.characters \o minput.records)

\* C8: the characters and the catalog entries of a written store ascend by
\* the number in their id; a store holding v10, v2 and a run bringing v1 are
\* written as v1, v2, v10.
C8_NumericOrder ==
    /\ WroteStore =>
          /\ SortedNumerically(file.doc.characters)
          /\ SortedNumerically(file.doc.top_vns)
    /\ (/\ WroteStore
        /\ args.append
        /\ existing.kind = "db"
        /\ Map(IdOf, existing.doc.top_vns) = <<V(10), V(2)>>
        /\ args.vn_ids = <<V(1)>>
        /\ args.top_vns = 0)
          => Map(IdOf, file.doc.top_vns) = <<V(1), V(2), V(10)>>

\* the append run that brings v1 to the store holding v10, v2 has written
C8_Witness ==
    /\ WroteStore
    /\ args.append
    /\ existing.kind = "db"
    /\ Map(IdOf, existing.doc.top_vns) = <<V(10), V(2)>>
    /\ args.vn_ids = <<V(1)>>
    /\ args.top_vns = 0
    /\ Len(file.doc.characters) > 2

\* C9: de-duplication keeps the first record of each key and the order of
\* the kept records; the merged store keeps a record of the store over a new
\* one of the same (id, name); c1/A, c1/A, c1/B leave two records.
C9_FirstOccurrenceWins ==
    mpc = "once" =>
        LET st == minput.store.characters
            all == st \o minput.records
            allVns == minput.store.top_vns \o minput.top_vns
            FromStore(r) == \E i \in 1..Len(st) : CharKey(st[i]) = CharKey(r)
        IN  /\ remove_duplicates(all) = FirstOccurrences(CharKey, all)
            /\ remove_duplicates_in_vns(allVns) = FirstOccurrences(VnKey, allVns)
            /\ minput.append =>
                  \A i \in 1..Len(mout[1].characters) :
                     LET r == mout[1].characters[i]
                     IN  FromStore(r) => r = FirstOccurrences(CharKey, SelectSeq(st, LAMBDA x : CharKey(x) = CharKey(r)))[1]
            /\ Map(CharKey, all) = <<<<C(1), "A">>, <<C(1), "A">>, <<C(1), "B">>>>
                  => Len(remove_duplicates(all)) = 2

\* the store holds c1/A, the run brings another c1/A record and c1/B
C9_Witness ==
    /\ mpc = "once"
    /\ minput.append
    /\ minput.store.characters = <<MergeRecs[2]>>
    /\ minput.records = <<MergeRecs[1], MergeRecs[3]>>
    /\ Len(mout[1].characters) = 2

\* C10: a paginated client query returns the results of every page it
\* received, in page order.
C10_AllPagesReturned ==
    cpc = "done" /\ cfn \in {"chars", "top"} => acc = Concat(received)

\* C13: in a fetch_characters call, the identities whose fetch has been
\* attempted since the last full-interval sleep (the warm-up or a batch
\* sleep) are never more than MAX_CHAR_BATCH, and a batch sleep leaves the
\* batch counter at zero.
C13_BatchNeverExceeded ==
    /\ fpc \notin {"none", "call"} => idsSincePause <= MAX_CHAR_BATCH
    /\ lastEvent = "sleep:batch" => fetched_vns_since_pause = 0

\* the names of the character's traits of one group, in the order of its
\* trait list
GroupNames(char, g) ==
    LET P(tr) == Get(tr, "group_name", "") = g
        NameOf(tr) == tr["name"]
    IN  Map(NameOf, SelectSeq(Get(char, "traits", <<>>), P))

\* out holds the names of names_, each as often, in ascending order
IsSortedNames(out, names_) ==
    /\ Len(out) = Len(names_)
    /\ \A n \in Range(names_) \cup Range(out) :
          Cardinality({i \in 1..Len(out) : out[i] = n})
             = Cardinality({i \in 1..Len(names_) : names_[i] = n})
    /\ \A i \in 1..(Len(out) - 1) : ~ StrLess(out[i + 1], out[i])

\* C11: for each of Hair, Personality, Eyes, Role, Body the record
\* clean_character_traits returns has no field when no trait of the
\* character is in the group, the name as a single string when exactly one
\* is, the sorted list of the names when several are; and it has no `traits`.
C11_GroupedTraitFields ==
    upc = "done" /\ uin.fn = "clean" =>
        /\ ~ Has(uout, "traits")
        /\ \A g \in desired_groups :
              LET names_ == GroupNames(uin.char, g)
              IN  /\ names_ = <<>> => ~ Has(uout, g)
                  /\ Len(names_) = 1 =>
                        Has(uout, g) /\ uout[g].t = "str" /\ uout[g].v = names_[1]
                  /\ Len(names_) > 1 =>
                        /\ Has(uout, g)
                        /\ uout[g].t = "list"
                        /\ IsSortedNames(uout[g].v, names_)

\* the characters of the roster that carry the trait, counted where the
\* trait's group is not on the denylist
RosterFrequency(roster, tr) ==
    Cardinality({i \in 1..Len(roster) :
                    \E j \in 1..Len(Get(roster[i], "traits", <<>>)) :
                        /\ roster[i]["traits"][j]["id"] = tr["id"]
                        /\ is_sfw(roster[i]["traits"][j])})

\* the positions in the trait list select_signature_trait chooses among:
\* the SFW traits that reach min_overlap if there are any, else the SFW
\* traits below it
SelectionPool(char, roster, min_overlap) ==
    LET trs == Get(char, "traits", <<>>)
        sfw == {i \in 1..Len(trs) : is_sfw(trs[i])}
        eligible == {i \in sfw : RosterFrequency(roster, trs[i]) >= min_overlap}
    IN  IF eligible # {} THEN eligible ELSE sfw

\* the first position of the pool whose score no position of the pool exceeds
FirstMaximal(pool, Score(_)) ==
    CHOOSE i \in pool :
        /\ \A j \in pool : Score(j) <= Score(i)
        /\ \A j \in pool : j < i => Score(j) < Score(i)

\* C12: with the frequencies of the full roster, select_signature_trait
\* returns the name of the first trait of maximal score among the
\* character's SFW traits that reach min_overlap, or among its SFW traits
\* when none does; the result is null exactly when the character has no SFW
\* trait, and is never taken from a trait of a denylisted group.
C12_SignatureTrait ==
    upc = "done" /\ uin.fn = "select" =>
        LET trs == Get(uin.char, "traits", <<>>)
            freq == collect_frequencies(uin.roster)
            pool == SelectionPool(uin.char, uin.roster, uin.min_overlap)
            Score(i) == score_trait(trs[i], freq)
            best == FirstMaximal(pool, Score)
        IN  /\ \A i \in 1..Len(trs) :
                  is_sfw(trs[i]) => CounterGet(freq, trs[i]["id"])
                                       = RosterFrequency(uin.roster, trs[i])
            /\ uout.t = "null" <=> \A i \in 1..Len(trs) : ~ is_sfw(trs[i])
            /\ uout.t # "null" =>
                  /\ uout.t = "str"
                  /\ pool # {}
                  /\ is_sfw(trs[best])
                  /\ uout.v = trs[best]["name"]

\* a call in which two traits that reach min_overlap tie for the best score
\* and a trait below min_overlap scores higher than both
C12_Witness ==
    /\ upc = "done"
    /\ uin.fn = "select"
    /\ uin.min_overlap = 2
    /\ LET trs == Get(uin.char, "traits", <<>>)
           freq == collect_frequencies(uin.roster)
           pool == SelectionPool(uin.char, uin.roster, uin.min_overlap)
           Score(i) == score_trait(trs[i], freq)
       IN  /\ \E i \in pool : \E j \in pool :
                 /\ i < j
                 /\ Score(i) = Score(j)
                 /\ \A h \in pool : Score(h) <= Score(i)
                 /\ uout.v = trs[i]["name"]
           /\ \E h \in 1..Len(trs) :
                 /\ h \notin pool
                 /\ is_sfw(trs[h])
                 /\ \A i \in pool : Score(h) > Score(i)

OriginFields == {"released", "role", "developer"}

\* two JSON values are the same: of one type, with one content
SameValue(x, y) == x.t = y.t /\ x.v = y.v

\* the field is in both records with one value, or in neither
SameField(a, b, fld) ==
    /\ Has(a, fld) <=> Has(b, fld)
    /\ Has(a, fld) => IF fld \in OriginFields THEN SameValue(a[fld], b[fld])
                      ELSE a[fld] = b[fld]

====
